---- MODULE Spec2Model ----
(***************************************************************************)
(* LangChainInterface (genai/extensions/langchain/llm.py): the adapter     *)
(* that exposes the GENAI text-generation service as a LangChain LLM.      *)
(*                                                                         *)
(* Texts are sequences of one-character strings.  An optional value        *)
(* (Python None / a value) is a sequence of length 0 / 1, so that          *)
(* None = <<>> and Some(v) = <<v>>.                                        *)
(***************************************************************************)
EXTENDS Integers, Sequences, FiniteSets, TLC

VARIABLES params, configured, call, gen, handles, requests, ncalls

vars == <<params, configured, call, gen, handles, requests, ncalls>>

----------------------------------------------------------------------------
(* Bounds of the model *)

\* the remote stream delivers at most MaxUnits response units per request
MaxUnits == 2
\* number of complete / streamComplete calls made on the adapter
MaxCalls == 2

----------------------------------------------------------------------------
(* Values *)

None == <<>>
Some(v) == <<v>>

Alphabet == {"a", "b"}

\* generated_text of the result of the batch call
Texts == {<<"a", "b">>, <<"b", "a">>}

\* generated_text of one streamed response unit
UnitTexts == {<<"a">>, <<"b">>}

\* the stop lists a caller passes; "." is a regular-expression metacharacter,
\* "ab" spans two response units
StopLists ==
    { <<>>,
      << <<"b">> >>,
      << <<"a", "b">> >>,
      << <<".">> >> }

OptStopLists == {None} \cup {Some(s) : s \in StopLists}

Errors == {"TransportError", "AuthError"}

\* GenerateParams(): every field None (stream None is falsy)
DefaultParams == [stream |-> FALSE, stop_sequences |-> None]

\* the stop sequences the caller configures: non-empty lists of literal strings
ConfiguredStopLists == {<< <<"b">> >>, << <<"a", "b">> >>}

\* the parameters the caller configures
ParamsSet ==
    [stream : BOOLEAN,
     stop_sequences : {None} \cup {Some(s) : s \in ConfiguredStopLists}]

Min(S) == CHOOSE x \in S : \A y \in S : x <= y

----------------------------------------------------------------------------
(* Pure functions *)

RECURSIVE Concat(_)
\* final_text += chunk.text over the chunks, in order
Concat(chunks) ==
    IF chunks = <<>> THEN <<>>
    ELSE chunks[1].text \o Concat(Tail(chunks))

\* Python: a or b  (None and the empty list are falsy)
PyOr(a, b) == IF a # None /\ a[1] # <<>> THEN a ELSE b

\* "|".join(stop): the alternatives of the regular expression; the empty
\* list joins to the empty pattern, which has the one alternative ""
Alternatives(stop) ==
    IF stop = <<>> THEN {<<>>} ELSE {stop[k] : k \in DOMAIN stop}

\* the (unescaped) pattern pat matches text at 0-based offset i;
\* "." matches any character
MatchAt(pat, text, i) ==
    /\ i + Len(pat) <= Len(text)
    /\ \A j \in 1..Len(pat) : pat[j] = "." \/ pat[j] = text[i + j]

\* langchain.llms.utils.enforce_stop_tokens:
\*   re.split("|".join(stop), text, maxsplit=1)[0]
\* the text before the leftmost match of the pattern, the whole text if none
enforce_stop_tokens(text, stop) ==
    LET offs == {i \in 0..Len(text) :
                    \E pat \in Alternatives(stop) : MatchAt(pat, text, i)}
    IN  IF offs = {} THEN text ELSE SubSeq(text, 1, Min(offs))

\* GenerationChunk(text=response.generated_text, generation_info=response.dict())
GenerationChunk(response) ==
    [text |-> response.generated_text, generation_info |-> response]

\* self.params or GenerateParams()
ParamsOrDefault(p) == IF p # None THEN p[1] ELSE DefaultParams

\* params.stop_sequences = stop or params.stop_sequences
SetStop(p, stop) ==
    [p EXCEPT !.stop_sequences = PyOr(stop, p.stop_sequences)]

\* self.params after the assignment: params is self.params itself when that
\* is set, a temporary GenerateParams() otherwise
SelfParamsAfter(selfp, stop) ==
    IF selfp # None THEN Some(SetStop(selfp[1], stop)) ELSE selfp

\* variant: the client handle is built once and kept for later calls
ModelCached(hs, callid) == IF hs = <<>> THEN Append(hs, callid) ELSE hs

\* Model(model=self.model, params=params, credentials=self.credentials):
\* a new client handle, owned by the call that constructs it
Model(hs, callid) == Append(hs, callid)

\* variant: the streaming path returns the concatenation uncut
StreamFinalTextUncut(final_text, stop) == final_text

\* if stop is not None: final_text = enforce_stop_tokens(final_text, stop)
StreamFinalText(final_text, stop) ==
    IF stop # None THEN enforce_stop_tokens(final_text, stop[1]) ELSE final_text

\* if params.stop_sequences is not None:
\*     text = enforce_stop_tokens(text, params.stop_sequences)
BatchFinalText(text, p) ==
    IF p.stop_sequences # None
    THEN enforce_stop_tokens(text, p.stop_sequences[1])
    ELSE text

\* variant: the callback is handed the first response of the stream
on_llm_new_token_stale(g) ==
    IF g.rm
    THEN LET response == g.received[1]
         IN  Append(g.callbacks,
                    [token |-> response.generated_text, response |-> response])
    ELSE g.callbacks

\* if run_manager: run_manager.on_llm_new_token(token=..., response=response)
\* runs when the generator is resumed after the yield of that response
on_llm_new_token(g) ==
    IF g.rm
    THEN LET response == g.received[Len(g.received)]
         IN  Append(g.callbacks,
                    [token |-> response.generated_text, response |-> response])
    ELSE g.callbacks

----------------------------------------------------------------------------
(* State *)

NoCall ==
    [id |-> 0, pc |-> "idle", stop |-> None, streaming |-> FALSE,
     final_text |-> <<>>, raw |-> None, applied |-> None,
     result |-> None, err |-> None]

NoGen ==
    [state |-> "none", owner |-> 0, driver |-> "none", stop |-> None,
     rm |-> FALSE, received |-> <<>>, emitted |-> <<>>, callbacks |-> <<>>,
     handle |-> 0, conn |-> "none", remote |-> "none", err |-> None]

\* the generator object returned by self._stream(...): its body has not run
NewGen(callid, driver, stop, rm) ==
    [NoGen EXCEPT !.state = "created", !.owner = callid, !.driver = driver,
                  !.stop = stop, !.rm = rm]

\* no generator is live: a new one can be created
GenFree == gen.state \in {"none", "done", "error", "closed"}

\* a generator that has terminated is garbage once the next call starts
Forget(g) == IF g.state \in {"done", "error", "closed"} THEN NoGen ELSE g

Init ==
    /\ params \in {None} \cup {Some(p) : p \in ParamsSet}
    /\ configured = params
    /\ call = NoCall
    /\ gen = NoGen
    /\ handles = <<>>
    /\ requests = <<>>
    /\ ncalls = 0

----------------------------------------------------------------------------
(* The remote service *)

\* what one pull of model.generate_stream(...) can produce
StreamOutcomes ==
    {[kind |-> "unit", text |-> t, err |-> "-"] : t \in UnitTexts}
    \cup {[kind |-> "end", text |-> <<>>, err |-> "-"]}
    \cup {[kind |-> "fail", text |-> <<>>, err |-> e] : e \in Errors}

\* what model.generate(prompts=[prompt]) can produce
BatchOutcomes ==
    {[kind |-> "text", text |-> t, err |-> "-"] : t \in Texts}
    \cup {[kind |-> "fail", text |-> <<>>, err |-> e] : e \in Errors}

----------------------------------------------------------------------------
(* _stream: the generator body, from one resumption to the next suspension *)

\* first resumption: the body runs from its start to the for loop
\*   params = self.params or GenerateParams()
\*   params.stop_sequences = stop or params.stop_sequences
\*   model = Model(...); model.generate_stream(prompts=[prompt])
StreamStart(g, selfp, hs, rq) ==
    [gen      |-> [g EXCEPT !.handle = Len(Model(hs, g.owner)),
                            !.conn = "open", !.remote = "streaming"],
     params   |-> SelfParamsAfter(selfp, g.stop),
     handles  |-> Model(hs, g.owner),
     requests |-> Append(rq, [call |-> g.owner,
                              handle |-> Len(Model(hs, g.owner)),
                              kind |-> "stream"])]

\* later resumptions continue after the yield: the callback of the response
\* just yielded, then the next iteration of the for loop
StreamContinue(g, selfp, hs, rq) ==
    [gen      |-> [g EXCEPT !.callbacks = on_llm_new_token(g)],
     params   |-> selfp,
     handles  |-> hs,
     requests |-> rq]

\* variant: the stop sequences are enforced on every chunk before the yield
StreamDeliverCut(g, out) ==
    CASE out.kind = "unit" ->
           LET response == [generated_text |-> out.text]
               chunk == GenerationChunk(response)
           IN  [g EXCEPT !.received = Append(@, response),
                         !.emitted = Append(@,
                            [chunk EXCEPT !.text =
                                StreamFinalText(chunk.text, g.stop)]),
                         !.state = "suspended"]
      [] out.kind = "end" ->
           [g EXCEPT !.state = "done", !.remote = "ended", !.conn = "released"]
      [] out.kind = "fail" ->
           [g EXCEPT !.state = "error", !.remote = out.err,
                     !.err = Some(out.err), !.conn = "released"]

\* the for loop takes the next response: yield a chunk, end, or raise
StreamDeliver(g, out) ==
    CASE out.kind = "unit" ->
           LET response == [generated_text |-> out.text]
           IN  [g EXCEPT !.received = Append(@, response),
                         !.emitted = Append(@, GenerationChunk(response)),
                         !.state = "suspended"]
      [] out.kind = "end" ->
           [g EXCEPT !.state = "done", !.remote = "ended", !.conn = "released"]
      [] out.kind = "fail" ->
           [g EXCEPT !.state = "error", !.remote = out.err,
                     !.err = Some(out.err), !.conn = "released"]

\* variant: the callback runs before the yield instead of after it
ResumeCallbackFirst(g, selfp, hs, rq, out) ==
    LET r == IF g.state = "created"
             THEN StreamStart(g, selfp, hs, rq)
             ELSE [gen |-> g, params |-> selfp, handles |-> hs, requests |-> rq]
        d == StreamDeliver(r.gen, out)
    IN  [r EXCEPT !.gen = IF out.kind = "unit"
                          THEN [d EXCEPT !.callbacks = on_llm_new_token(d)]
                          ELSE d]

\* next(generator)
Resume(g, selfp, hs, rq, out) ==
    LET r == IF g.state = "created"
             THEN StreamStart(g, selfp, hs, rq)
             ELSE StreamContinue(g, selfp, hs, rq)
    IN  [r EXCEPT !.gen = StreamDeliver(r.gen, out)]

\* the outcomes the remote stream can still produce for generator g
CanDeliver(g, out) ==
    out.kind = "unit" => Len(g.received) < MaxUnits

----------------------------------------------------------------------------
(* streamComplete, driven by the consumer *)

\* llm._stream(prompt, stop, run_manager): returns the generator object
Stream(stop, rm) ==
    /\ ncalls < MaxCalls
    /\ call.pc # "loop"
    /\ GenFree
    /\ ncalls' = ncalls + 1
    /\ gen' = NewGen(ncalls + 1, "consumer", stop, rm)
    /\ call' = NoCall
    /\ UNCHANGED <<params, configured, handles, requests>>

\* the consumer pulls the next chunk
Pull(out) ==
    /\ gen.driver = "consumer"
    /\ gen.state \in {"created", "suspended"}
    /\ CanDeliver(gen, out)
    /\ LET r == Resume(gen, params, handles, requests, out)
       IN  /\ gen' = r.gen
           /\ params' = r.params
           /\ handles' = r.handles
           /\ requests' = r.requests
    /\ UNCHANGED <<configured, call, ncalls>>

\* the consumer stops pulling and keeps the generator: it stays suspended at
\* its yield, nothing of _stream runs
Abandon ==
    /\ gen.driver = "consumer"
    /\ gen.state = "suspended"
    /\ gen' = [gen EXCEPT !.state = "abandoned"]
    /\ UNCHANGED <<params, configured, call, handles, requests, ncalls>>

\* the generator object is closed or finalized: GeneratorExit is raised at
\* the yield, the body unwinds, the stream iterator is finalized
Discard ==
    /\ gen.driver = "consumer"
    /\ gen.state = "abandoned"
    /\ gen' = [gen EXCEPT !.state = "closed", !.conn = "released"]
    /\ UNCHANGED <<params, configured, call, handles, requests, ncalls>>

----------------------------------------------------------------------------
(* complete: _call *)

\* params = self.params or GenerateParams()
\* params.stop_sequences = stop or params.stop_sequences
EffectiveParams(selfp, stop) == SetStop(ParamsOrDefault(selfp), stop)

\* the non-streaming path, after model.generate(...) produced out
BatchReturn(c, p, out) ==
    IF out.kind = "text"
    THEN [c EXCEPT !.pc = "returned",
                   !.raw = Some(out.text),
                   !.applied = p.stop_sequences,
                   !.result = Some(BatchFinalText(out.text, p))]
    ELSE [c EXCEPT !.pc = "raised", !.err = Some(out.err)]

\* variant: an error of the stream ends the loop and the text so far is returned
StreamLoopStepSwallow(c, g) ==
    CASE g.state = "suspended" ->
           [c EXCEPT !.final_text = @ \o g.emitted[Len(g.emitted)].text]
      [] g.state \in {"done", "error"} ->
           [c EXCEPT !.pc = "returned",
                     !.raw = Some(c.final_text),
                     !.applied = c.stop,
                     !.result = Some(StreamFinalText(c.final_text, c.stop))]

\* one iteration of  for chunk in self._stream(...)  after the generator g
\* was resumed: accumulate the chunk, finish the loop, or let the error out
StreamLoopStep(c, g) ==
    CASE g.state = "suspended" ->
           [c EXCEPT !.final_text = @ \o g.emitted[Len(g.emitted)].text]
      [] g.state = "done" ->
           [c EXCEPT !.pc = "returned",
                     !.raw = Some(c.final_text),
                     !.applied = c.stop,
                     !.result = Some(StreamFinalText(c.final_text, c.stop))]
      [] g.state = "error" ->
           [c EXCEPT !.pc = "raised", !.err = g.err]

\* complete(prompt, stop) when params.stream is falsy: one batch request
CallBatch(stop, out) ==
    /\ ncalls < MaxCalls
    /\ call.pc # "loop"
    /\ ~EffectiveParams(params, stop).stream
    /\ ncalls' = ncalls + 1
    /\ params' = SelfParamsAfter(params, stop)
    /\ handles' = Model(handles, ncalls + 1)
    /\ requests' = Append(requests, [call |-> ncalls + 1,
                                     handle |-> Len(Model(handles, ncalls + 1)),
                                     kind |-> "batch"])
    /\ call' = BatchReturn([NoCall EXCEPT !.id = ncalls + 1, !.stop = stop],
                           EffectiveParams(params, stop), out)
    /\ gen' = Forget(gen)
    /\ UNCHANGED configured

\* complete(prompt, stop) when params.stream is truthy: up to the creation
\* of the generator of the for loop
CallStream(stop, rm) ==
    /\ ncalls < MaxCalls
    /\ call.pc # "loop"
    /\ GenFree
    /\ EffectiveParams(params, stop).stream
    /\ ncalls' = ncalls + 1
    /\ params' = SelfParamsAfter(params, stop)
    /\ call' = [NoCall EXCEPT !.id = ncalls + 1, !.pc = "loop", !.stop = stop,
                              !.streaming = TRUE]
    /\ gen' = NewGen(ncalls + 1, "call", stop, rm)
    /\ UNCHANGED <<configured, handles, requests>>

\* the for loop of _call pulls the next chunk
CallPull(out) ==
    /\ call.pc = "loop"
    /\ gen.driver = "call"
    /\ gen.state \in {"created", "suspended"}
    /\ CanDeliver(gen, out)
    /\ LET r == Resume(gen, params, handles, requests, out)
       IN  /\ gen' = r.gen
           /\ params' = r.params
           /\ handles' = r.handles
           /\ requests' = r.requests
           /\ call' = StreamLoopStep(call, r.gen)
    /\ UNCHANGED <<configured, ncalls>>

----------------------------------------------------------------------------

Next ==
    \/ \E stop \in OptStopLists, rm \in BOOLEAN : Stream(stop, rm)
    \/ \E out \in StreamOutcomes : Pull(out)
    \/ Abandon
    \/ Discard
    \/ \E stop \in OptStopLists, out \in BatchOutcomes : CallBatch(stop, out)
    \/ \E stop \in OptStopLists, rm \in BOOLEAN : CallStream(stop, rm)
    \/ \E out \in StreamOutcomes : CallPull(out)

Spec == Init /\ [][Next]_vars

----------------------------------------------------------------------------
(* Properties *)

\* the texts of the chunks / of the response units, in order
ChunkTexts(chunks) == [k \in DOMAIN chunks |-> chunks[k].text]
UnitTextsOf(units) == [k \in DOMAIN units |-> units[k].generated_text]

\* the stop string s occurs in text at 0-based offset i
OccursAt(s, text, i) ==
    /\ i + Len(s) <= Len(text)
    /\ SubSeq(text, i + 1, i + Len(s)) = s

\* the truncation policy: cut before the earliest occurrence of any stop string
PolicyTruncate(text, stop) ==
    LET occ == {i \in 0..Len(text) :
                   \E k \in DOMAIN stop : OccursAt(stop[k], text, i)}
    IN  IF occ = {} THEN text ELSE SubSeq(text, 1, Min(occ))

\* a complete call in streaming mode has returned
StreamingReturned == call.pc = "returned" /\ call.streaming

\* C1: in streaming mode complete returns the concatenation, in arrival
\* order, of the chunk texts its streamComplete sequence yielded; stop-sequence
\* truncation is applied to it when the caller passed a stop list, and it is
\* returned as is when stop is absent, whatever stop sequences are configured
C1_StreamingCompleteIsConcat ==
    StreamingReturned =>
        /\ gen.owner = call.id /\ gen.stop = call.stop /\ gen.state = "done"
        /\ call.stop = None => call.result = Some(Concat(gen.emitted))
        /\ call.stop # None =>
              call.result = Some(enforce_stop_tokens(Concat(gen.emitted),
                                                     call.stop[1]))

\* C1 witness: stop ["ab"] passed, chunks "a", "b": the stop string spans the
\* two chunks and the returned text is cut
C1_Witness ==
    /\ StreamingReturned
    /\ call.stop = Some(<< <<"a", "b">> >>)
    /\ ChunkTexts(gen.emitted) = << <<"a">>, <<"b">> >>
    /\ call.result = Some(<<>>)

\* C2: the caller's stop list is not persisted: the adapter's parameters
\* always equal what the caller configured
C2_StopNotPersisted == params = configured

\* C3: the truncation complete applies to a text T with a stop list S gives
\* T cut before the earliest occurrence of any s in S, and T when none occurs
C3_TruncationPolicy ==
    (call.pc = "returned" /\ call.applied # None) =>
        call.result = Some(PolicyTruncate(call.raw[1], call.applied[1]))

\* C4: on the non-streaming path complete called with an empty stop list
\* returns the raw generated text of the remote service
C4_EmptyStopReturnsRaw ==
    (call.pc = "returned" /\ ~call.streaming /\ call.stop = Some(<<>>)) =>
        call.result = call.raw

\* C5: when the remote stream fails after n units, the sequence has yielded
\* exactly those n chunks and ends by raising that error; complete in
\* streaming mode raises the same error and returns no text
C5_StreamFailurePropagates ==
    gen.remote \in Errors =>
        /\ gen.state = "error"
        /\ gen.err = Some(gen.remote)
        /\ ChunkTexts(gen.emitted) = UnitTextsOf(gen.received)
        /\ gen.driver = "call" =>
              /\ call.pc = "raised"
              /\ call.err = Some(gen.remote)
              /\ call.result = None

\* C5 witness: complete in streaming mode, the remote fails after one unit
C5_Witness ==
    /\ gen.driver = "call"
    /\ gen.remote = "TransportError"
    /\ Len(gen.received) = 1
    /\ call.pc = "raised"
    /\ call.final_text # <<>>

\* C6: with a callback supplied, the callbacks are invoked in the order of
\* chunk emission, each with its chunk's text and the raw response unit, and
\* the callback of a chunk has run before the consumer receives the next chunk
C6_CallbackInOrder ==
    gen.rm =>
        /\ Len(gen.callbacks) <= Len(gen.emitted)
        /\ \A k \in DOMAIN gen.callbacks :
              gen.callbacks[k] = [token |-> gen.emitted[k].text,
                                  response |-> gen.received[k]]
        /\ Len(gen.callbacks) >= Len(gen.emitted) - 1

\* C6 witness: the stream was pulled to its end, the callback has run for two
\* chunks with different texts
C6_Witness ==
    /\ gen.rm
    /\ gen.state = "done"
    /\ Len(gen.callbacks) = 2
    /\ gen.callbacks[1].token # gen.callbacks[2].token

C8_ChunksAreRaw ==
    /\ ChunkTexts(gen.emitted) = UnitTextsOf(gen.received)
    /\ gen.state = "done" => gen.remote = "ended"
    /\ gen.remote = "ended" => gen.state = "done"

\* C8 witness: stop ["b"] supplied, the stream ended after units "a", "b"
C8_Witness ==
    /\ gen.driver = "consumer"
    /\ gen.stop = Some(<< <<"b">> >>)
    /\ gen.state = "done"
    /\ ChunkTexts(gen.emitted) = << <<"a">>, <<"b">> >>

\* the requests / handles of the complete call in the call record
CallRequests == {i \in DOMAIN requests : requests[i].call = call.id}
CallHandles == {h \in DOMAIN handles : handles[h] = call.id}

\* C9: every request goes through a handle constructed by the same call, no
\* handle carries two requests, and a finished complete call has constructed
\* one handle and issued one request: a streaming one when streaming is
\* enabled, a batch one otherwise
C9_FreshHandlePerCall ==
    /\ \A i \in DOMAIN requests :
          /\ requests[i].handle \in DOMAIN handles
          /\ handles[requests[i].handle] = requests[i].call
    /\ \A i, j \in DOMAIN requests :
          requests[i].handle = requests[j].handle => i = j
    /\ call.pc \in {"returned", "raised"} =>
          /\ call.streaming = (params # None /\ params[1].stream)
          /\ Cardinality(CallHandles) = 1
          /\ Cardinality(CallRequests) = 1
          /\ \A i \in CallRequests :
                requests[i].kind = IF call.streaming THEN "stream" ELSE "batch"

\* C9 witness: a streaming complete has returned after an earlier call
C9_Witness ==
    /\ StreamingReturned
    /\ Len(requests) = 2
    /\ requests[1].call # requests[2].call

\* C10: with a callback supplied, while the consumer holds control after k
\* chunks the callback has run for the first k-1 chunks only, also once the
\* sequence is abandoned; it has run for every chunk only when the sequence
\* was pulled to its end
C10_CallbackLagsByOne ==
    gen.rm =>
        /\ gen.state \in {"suspended", "abandoned", "closed"} =>
              Len(gen.callbacks) = Len(gen.emitted) - 1
        /\ gen.state \in {"done", "error"} =>
              Len(gen.callbacks) = Len(gen.emitted)
        /\ Len(gen.callbacks) = Len(gen.emitted) /\ gen.emitted # <<>> =>
              gen.state \in {"done", "error"}

\* C10 witness: the consumer abandons after two chunks, one callback has run
C10_Witness ==
    /\ gen.rm
    /\ gen.state = "abandoned"
    /\ Len(gen.emitted) = 2
    /\ Len(gen.callbacks) = 1

====
